---------------------------- MODULE Spec2Model ----------------------------
(***************************************************************************)
(* Model of the population-exposure analysis engine of                     *)
(* src/src/population_analysis.py.                                         *)
(*                                                                         *)
(* Geometry is modelled on a line: a geometry is a finite set of closed    *)
(* intervals <<a, b>> with a < b (the parts of a multi-polygon), the empty *)
(* set being the empty geometry.  Two closed intervals that share only an  *)
(* end point intersect, as two polygons that only touch do for shapely's   *)
(* `intersects`.  Lengths stand for areas in the equal-area projection.    *)
(***************************************************************************)
EXTENDS Integers, Sequences, FiniteSets, TLC

(* ------------------------------ bounds --------------------------------- *)

\* The territory is the segment 0..MaxCoord; polygons have integer corners.
MaxCoord == 8

\* Square units of the equal-area projection per km2 (1e6 m2 in the source).
SqUnitsPerKm2 == 2

\* Number of concurrent callers of carregar_grid_ibge in SpecConc.
NThreads == 2

(* ----------------------------- geometry -------------------------------- *)

Intervals == {iv \in (0..MaxCoord) \X (0..MaxCoord) : iv[1] < iv[2]}

\* The polygons handed to the engine: the empty one and every single part.
Polygons == {{}} \cup {{iv} : iv \in Intervals}

IvIntersects(i, j) == i[1] <= j[2] /\ j[1] <= i[2]

\* shapely `intersects`: the geometries share at least one point, boundary
\* points included; the empty geometry intersects nothing.
Intersects(g, h) == \E i \in g, j \in h : IvIntersects(i, j)

\* The two geometries share more than boundary points.
Overlaps(g, h) == \E i \in g, j \in h : i[1] < j[2] /\ j[1] < i[2]

\* g lies within h (boundary contact allowed).
Within(g, h) == \A i \in g : \E j \in h : j[1] <= i[1] /\ i[2] <= j[2]

\* g lies in the interior of h.
StrictlyWithin(g, h) == \A i \in g : \E j \in h : j[1] < i[1] /\ i[2] < j[2]

MinOf(S) == CHOOSE x \in S : \A y \in S : x <= y
MaxOf(S) == CHOOSE x \in S : \A y \in S : y <= x

\* `geom.bounds`: the bounding box of a non-empty geometry.
Bounds(g) == <<MinOf({i[1] : i \in g}), MaxOf({i[2] : i \in g})>>

\* Unit segments [k, k+1] covered by a geometry.
UnitsOf(g) == {k \in 0..(MaxCoord - 1) : \E i \in g : i[1] <= k /\ k < i[2]}

\* The geometry made of the maximal runs of a set of unit segments.
GeomOfUnits(U) ==
    {iv \in Intervals :
        /\ \A k \in iv[1]..(iv[2] - 1) : k \in U
        /\ (iv[1] - 1) \notin U
        /\ iv[2] \notin U}

\* shapely `difference`: the closure of the points of g not in h.
Difference(g, h) == GeomOfUnits(UnitsOf(g) \ UnitsOf(h))

\* Area in the equal-area projection (to_crs(ALBERS_BR) then .area), in
\* square units.
ProjectedArea(g) == Cardinality(UnitsOf(g))

(* ----------------------------- rationals ------------------------------- *)

\* A non-negative rational <<n, d>>, d > 0, stands for the float n / d.
Rat(n, d) == <<n, d>>
RZero == Rat(0, 1)
RLeq(x, y) == x[1] * y[2] <= y[1] * x[2]
RLt(x, y) == x[1] * y[2] < y[1] * x[2]
REq(x, y) == x[1] * y[2] = y[1] * x[2]
RPos(x) == x[1] > 0

(* ------------------------------- None ---------------------------------- *)

\* Python's None and a present value.
None == <<>>
Some(x) == <<x>>
IsNone(o) == o = <<>>
Val(o) == o[1]

(* --------------------------- provider data ----------------------------- *)

\* QUADRANTE labels of the 500 km grid are strings "ID_<n>", modelled as
\* sequences of characters.
Label9 == <<"I", "D", "_", "9">>
Label10 == <<"I", "D", "_", "1", "0">>

\* The 500 km grid (BR500KM.shp): one macro cell per tile.
MacroCells ==
    { [QUADRANTE |-> Label9, geom |-> {<<0, 3>>}],
      [QUADRANTE |-> Label10, geom |-> {<<3, 6>>}] }

TileIds == {9, 10}

\* The statistical grid files grade_id<n>.shp: rows of cells with their
\* geometry and population TOTAL.  Rural cells are 1 km2, urban cells
\* smaller.  The cell at the edge shared by the two tiles is listed in both
\* files.
CellA == [cell |-> "a", geom |-> {<<0, 2>>}, TOTAL |-> 0]
CellB == [cell |-> "b", geom |-> {<<2, 3>>}, TOTAL |-> 4]
CellC == [cell |-> "c", geom |-> {<<3, 4>>}, TOTAL |-> 1]
CellD == [cell |-> "d", geom |-> {<<4, 6>>}, TOTAL |-> 6]

TileFile(id) ==
    IF id = 9 THEN <<CellA, CellB>> ELSE <<CellB, CellC, CellD>>

(* ------------------------------- state --------------------------------- *)

VARIABLES
    remoteIndex,      \* what downloading BR500KM.zip does now
    remote,           \* what downloading grade_id<n>.zip does now
    diskIndex,        \* dados_ibge/grade_500km/BR500KM.shp
    disk,             \* dados_ibge/grade_id<n>/grade_id<n>.shp
    _GRID_CACHE,      \* module global: tile id -> loaded grid
    _QUADRANT_INDEX,  \* module global: None or the loaded 500 km grid
    last,             \* the latest call: its arguments and what it returned
    threads           \* concurrent callers of carregar_grid_ibge: where each is

vars == <<remoteIndex, remote, diskIndex, disk, _GRID_CACHE, _QUADRANT_INDEX,
          last, threads>>

\* Outcomes of a download: the archive extracts to a readable shapefile; the
\* request or the unzip raises; the archive extracts but leaves a shapefile
\* that geopandas cannot read.
RemoteStates == {"ok", "error", "corrupt"}

\* The part of the state a call reads and writes.
World == [cache |-> _GRID_CACHE, qindex |-> _QUADRANT_INDEX,
          disk |-> disk, diskIndex |-> diskIndex]

(* ------------------------ carregar_indice_quadrantes ------------------- *)

\* The index that forgets it was loaded.
IndexCachedNever(qindex) == FALSE

\* "if _QUADRANT_INDEX is not None".
IndexCached(qindex) == ~IsNone(qindex)

\* Result of a call: the value returned, whether an exception left the
\* function, the world after it, whether a download was requested and
\* whether the shapefile was read.
carregar_indice_quadrantes(w) ==
    IF IndexCached(w.qindex)
    THEN [ret |-> w.qindex, raised |-> FALSE, w |-> w,
          downloaded |-> FALSE, read |-> FALSE]
    ELSE
      LET downloads == w.diskIndex = "absent"
          afterDl == IF downloads /\ remoteIndex = "ok" THEN "good"
                     ELSE IF downloads /\ remoteIndex = "corrupt" THEN "bad"
                     ELSE w.diskIndex
          w1 == [w EXCEPT !.diskIndex = afterDl]
      IN  IF downloads /\ remoteIndex = "error"
          THEN [ret |-> None, raised |-> FALSE, w |-> w,
                downloaded |-> TRUE, read |-> FALSE]
          ELSE IF afterDl = "bad"
          THEN [ret |-> None, raised |-> TRUE, w |-> w1,
                downloaded |-> downloads, read |-> TRUE]
          ELSE [ret |-> Some(MacroCells), raised |-> FALSE,
                w |-> [w1 EXCEPT !.qindex = Some(MacroCells)],
                downloaded |-> downloads, read |-> TRUE]

(* ---------------------- identificar_grades_relevantes ------------------ *)

\* Character order of Python string comparison, for the characters used.
Ord(c) ==
    CASE c = "0" -> 48 [] c = "1" -> 49 [] c = "2" -> 50 [] c = "3" -> 51
      [] c = "4" -> 52 [] c = "5" -> 53 [] c = "6" -> 54 [] c = "7" -> 55
      [] c = "8" -> 56 [] c = "9" -> 57 [] c = "D" -> 68 [] c = "I" -> 73
      [] c = "_" -> 95

RECURSIVE StrLt(_, _)
StrLt(s, t) ==
    IF t = <<>> THEN FALSE
    ELSE IF s = <<>> THEN TRUE
    ELSE IF Ord(Head(s)) # Ord(Head(t)) THEN Ord(Head(s)) < Ord(Head(t))
    ELSE StrLt(Tail(s), Tail(t))

\* sorted(...unique().tolist())
RECURSIVE SortedLabels(_)
SortedLabels(S) ==
    IF S = {} THEN <<>>
    ELSE LET m == CHOOSE x \in S : \A y \in S \ {x} : StrLt(x, y)
         IN  <<m>> \o SortedLabels(S \ {m})

\* g.replace("ID_", ""): the labels carry the text only as their prefix.
StripId(s) ==
    IF Len(s) >= 3 /\ SubSeq(s, 1, 3) = <<"I", "D", "_">>
    THEN SubSeq(s, 4, Len(s)) ELSE s

\* int(...) of a string of decimal digits.
RECURSIVE IntOf(_)
IntOf(s) ==
    IF s = <<>> THEN 0
    ELSE 10 * IntOf(SubSeq(s, 1, Len(s) - 1)) + (Ord(s[Len(s)]) - 48)

\* A test that leaves out the cells the area only touches.
OverlappingQuadrants(index, area_geom) ==
    {q \in index : Overlaps(q.geom, area_geom)}

\* The macro cells the area intersects.
IntersectingQuadrants(index, area_geom) ==
    {q \in index : Intersects(q.geom, area_geom)}

identificar_grades_relevantes(w, area_geom) ==
    LET r == carregar_indice_quadrantes(w)
    IN  IF r.raised THEN [ret |-> <<>>, raised |-> TRUE, w |-> r.w]
        ELSE IF IsNone(r.ret) THEN [ret |-> <<>>, raised |-> FALSE, w |-> r.w]
        ELSE
          LET intersecting == IntersectingQuadrants(Val(r.ret), area_geom)
              grades_raw == SortedLabels({q.QUADRANTE : q \in intersecting})
          IN  [ret |-> [k \in 1..Len(grades_raw) |-> IntOf(StripId(grades_raw[k]))],
               raised |-> FALSE, w |-> r.w]

(* ----------------------------- carregar_grid_ibge ---------------------- *)

\* The cache entry that keeps only the first row of the grid.
CachePutHead(cache, grade_id, dados) ==
    [x \in (DOMAIN cache) \cup {grade_id} |->
        IF x = grade_id THEN SubSeq(dados, 1, 1) ELSE cache[x]]

\* `_GRID_CACHE[grade_id] = dados`
CachePut(cache, grade_id, dados) ==
    [x \in (DOMAIN cache) \cup {grade_id} |->
        IF x = grade_id THEN dados ELSE cache[x]]

\* The cache test left out: every call loads.
CacheHitNever(cache, grade_id, use_cache) == FALSE

\* `use_cache and grade_id in _GRID_CACHE`
CacheHit(cache, grade_id, use_cache) ==
    use_cache /\ grade_id \in DOMAIN cache

\* Result of a call: the grid returned (None when absent), whether an
\* exception left the function, the world after it, and whether the call
\* requested the archive and whether it read the shapefile.
carregar_grid_ibge(w, grade_id, use_cache) ==
    IF CacheHit(w.cache, grade_id, use_cache)
    THEN [ret |-> Some(w.cache[grade_id]), raised |-> FALSE, w |-> w,
          downloaded |-> FALSE, parsed |-> FALSE]
    ELSE
      LET downloads == w.disk[grade_id] = "absent"
          afterDl == IF downloads /\ remote[grade_id] = "ok" THEN "good"
                     ELSE IF downloads /\ remote[grade_id] = "corrupt" THEN "bad"
                     ELSE w.disk[grade_id]
          w1 == [w EXCEPT !.disk[grade_id] = afterDl]
          dados == TileFile(grade_id)
      IN  IF downloads /\ remote[grade_id] = "error"
          THEN [ret |-> None, raised |-> FALSE, w |-> w,
                downloaded |-> TRUE, parsed |-> FALSE]
          ELSE IF afterDl = "bad"
          THEN [ret |-> None, raised |-> TRUE, w |-> w1,
                downloaded |-> downloads, parsed |-> FALSE]
          ELSE [ret |-> Some(dados), raised |-> FALSE,
                w |-> IF use_cache
                      THEN [w1 EXCEPT !.cache = CachePut(w.cache, grade_id, dados)]
                      ELSE w1,
                downloaded |-> downloads, parsed |-> TRUE]

(* ----------------------------- calcular_area_km2 ---------------------- *)

calcular_area_km2(geom) == Rat(ProjectedArea(geom), SqUnitsPerKm2)

(* ---------------------------- calcular_estatisticas -------------------- *)

RECURSIVE SumTOTAL(_)
SumTOTAL(rows) ==
    IF rows = <<>> THEN 0 ELSE Head(rows).TOTAL + SumTOTAL(Tail(rows))

RECURSIVE SumArea(_)
SumArea(rows) ==
    IF rows = <<>> THEN 0
    ELSE ProjectedArea(Head(rows).geom) + SumArea(Tail(rows))

\* .min() where .max() is meant.
RECURSIVE MinDensidade(_)
MinDensidade(rows) ==
    IF Len(rows) = 1 THEN Head(rows).densidade_pop_km2
    ELSE LET m == MinDensidade(Tail(rows))
             h == Head(rows).densidade_pop_km2
         IN  IF RLeq(h, m) THEN h ELSE m

RECURSIVE MaxDensidade(_)
MaxDensidade(rows) ==
    IF Len(rows) = 1 THEN Head(rows).densidade_pop_km2
    ELSE LET m == MaxDensidade(Tail(rows))
             h == Head(rows).densidade_pop_km2
         IN  IF RLeq(m, h) THEN h ELSE m

Stats(total, area, media, maxima) ==
    [total_pessoas |-> total, area_km2 |-> area,
     densidade_media |-> media, densidade_maxima |-> maxima]

ZeroStats == Stats(0, RZero, RZero, RZero)

\* area_geom is None or Some(polygon).
calcular_estatisticas(dados_intersec, area_geom) ==
    IF dados_intersec = <<>> THEN ZeroStats
    ELSE
      LET total_pessoas == SumTOTAL(dados_intersec)
          area_km2 == IF ~IsNone(area_geom)
                      THEN calcular_area_km2(Val(area_geom))
                      ELSE Rat(SumArea(dados_intersec), SqUnitsPerKm2)
          densidade_media == IF RPos(area_km2)
                             THEN Rat(total_pessoas * area_km2[2], area_km2[1])
                             ELSE RZero
          densidade_maxima == MaxDensidade(dados_intersec)
      IN  Stats(total_pessoas, area_km2, densidade_media, densidade_maxima)

(* --------------------------- processar_todas_grades -------------------- *)

\* grid.sindex.intersection(area_geom.bounds): rows whose bounding box meets
\* the bounding box of the area.
PossibleMatches(grid, area_geom) ==
    SelectSeq(grid, LAMBDA c : IvIntersects(Bounds(c.geom), Bounds(area_geom)))

\* possible_matches[possible_matches.intersects(area_geom)]
DadosFiltrados(grid, area_geom) ==
    SelectSeq(PossibleMatches(grid, area_geom),
              LAMBDA c : Intersects(c.geom, area_geom))

\* The loop over grades_relevantes from position k: the rows collected, in
\* order, whether a load raised, and the world after the loop.
RECURSIVE CollectGrades(_, _, _, _)
CollectGrades(w, grades, k, area_geom) ==
    IF k > Len(grades) THEN [dados |-> <<>>, raised |-> FALSE, w |-> w]
    ELSE
      LET g == carregar_grid_ibge(w, grades[k], TRUE)
      IN  IF g.raised THEN [dados |-> <<>>, raised |-> TRUE, w |-> g.w]
          ELSE
            LET rest == CollectGrades(g.w, grades, k + 1, area_geom)
                found == IF IsNone(g.ret) THEN <<>>
                         ELSE DadosFiltrados(Val(g.ret), area_geom)
            IN  [dados |-> found \o rest.dados, raised |-> rest.raised,
                 w |-> rest.w]

\* dados_area: the combined rows with area and density in the equal-area
\* projection.
WithDensity(rows) ==
    [k \in 1..Len(rows) |->
        [cell |-> rows[k].cell, geom |-> rows[k].geom, TOTAL |-> rows[k].TOTAL,
         densidade_pop_km2 |->
            Rat(rows[k].TOTAL * SqUnitsPerKm2, ProjectedArea(rows[k].geom))]]

\* Result of a call: None or the statistics, whether an exception left the
\* function, the world after it, and the grades and combined rows it used.
processar_todas_grades(w, area_geom) ==
    LET r == identificar_grades_relevantes(w, area_geom)
    IN  IF r.raised
        THEN [ret |-> None, raised |-> TRUE, w |-> r.w,
              grades |-> <<>>, dados |-> <<>>]
        ELSE IF r.ret = <<>>
        THEN [ret |-> None, raised |-> FALSE, w |-> r.w,
              grades |-> <<>>, dados |-> <<>>]
        ELSE
          LET c == CollectGrades(r.w, r.ret, 1, area_geom)
              dados_area == WithDensity(c.dados)
          IN  IF c.raised
              THEN [ret |-> None, raised |-> TRUE, w |-> c.w,
                    grades |-> r.ret, dados |-> <<>>]
              ELSE IF c.dados = <<>>
              THEN [ret |-> None, raised |-> FALSE, w |-> c.w,
                    grades |-> r.ret, dados |-> <<>>]
              ELSE [ret |-> Some(calcular_estatisticas(dados_area, Some(area_geom))),
                    raised |-> FALSE, w |-> c.w,
                    grades |-> r.ret, dados |-> dados_area]

(* ----------------------------- extrair_layers_kml ---------------------- *)

FG == "Flight Geography"
CV == "Contingency Volume"
GRB == "Ground Risk Buffer"
AA == "Adjacent Area"

\* layers_kml of analyze_population, in order.
layers_kml == <<FG, CV, GRB, AA>>

\* A KML document is a set of features: a Name, a geometry type and, for the
\* polygonal types, the geometry.
Feature(name, gtype, geom) == [Name |-> name, gtype |-> gtype, geometry |-> geom]

\* The features the documents of the model are made of.
FeaturePool ==
    { Feature(FG, "Polygon", {<<3, 4>>}),
      Feature(FG, "LineString", {}),
      Feature(CV, "Polygon", {<<3, 5>>}),
      Feature(GRB, "Polygon", {<<2, 5>>}),
      Feature(AA, "Polygon", {<<1, 6>>}),
      Feature(AA, "MultiPolygon", {<<0, 1>>, <<7, 8>>}) }

Documents == SUBSET FeaturePool

\* sel.geometry.union_all()
UnionAll(geoms) == GeomOfUnits(UNION {UnitsOf(g) : g \in geoms})

\* gdf[gdf['Name'] == name] restricted to Polygon and MultiPolygon rows.
PolygonRows(gdf, name) ==
    {f \in gdf : f.Name = name /\ f.gtype \in {"Polygon", "MultiPolygon"}}

\* The extraction that gives up at the first name without polygon features.
extrair_layers_kml_break(gdf, layer_names) ==
    LET missing == {j \in 1..Len(layer_names) :
                      PolygonRows(gdf, layer_names[j]) = {}}
        found == {layer_names[k] : k \in
                    {j \in 1..Len(layer_names) : \A i \in missing : j < i}}
    IN  [name \in found |->
            UnionAll({f.geometry : f \in PolygonRows(gdf, name)})]

\* The mapping from the names that have polygon features to their union.
extrair_layers_kml(gdf, layer_names) ==
    LET found == {layer_names[k] : k \in
                    {j \in 1..Len(layer_names) :
                        PolygonRows(gdf, layer_names[j]) # {}}}
    IN  [name \in found |->
            UnionAll({f.geometry : f \in PolygonRows(gdf, name)})]

(* ------------------------------ analyze_population --------------------- *)

\* The results that record a zero placeholder for a layer without data.
ResultsPutZero(results, name, stats) ==
    [x \in (DOMAIN results) \cup {name} |->
        IF x = name THEN (IF IsNone(stats) THEN ZeroStats ELSE Val(stats))
        ELSE results[x]]

\* results[name] = stats when the analysis returned statistics.
ResultsPut(results, name, stats) ==
    IF IsNone(stats) THEN results
    ELSE [x \in (DOMAIN results) \cup {name} |->
            IF x = name THEN Val(stats) ELSE results[x]]

\* layers_poligonos[name]: a missing key raises KeyError.
HasLayer(layers_poligonos, name) == name \in DOMAIN layers_poligonos

\* What was analysed under a name: the geometry handed to
\* processar_todas_grades and the rows of dados_area it built.
AnalysedPut(analysed_as, name, area_geom, r) ==
    [x \in (DOMAIN analysed_as) \cup {name} |->
        IF x = name THEN [area_geom |-> area_geom, dados |-> r.dados]
        ELSE analysed_as[x]]

\* The run so far: the results, whether an exception has left the function
\* and which, the world, the layers whose analysis was started, whether
\* the Adjacent Area warning was printed, and what each layer was analysed
\* as.
RunAfter(run, name, area_geom, r) ==
    [results |-> ResultsPut(run.results, name, r.ret),
     raised |-> r.raised,
     error |-> IF r.raised THEN "read_file" ELSE "",
     w |-> r.w,
     analysed |-> run.analysed \cup {name},
     warned |-> run.warned,
     analysed_as |-> AnalysedPut(run.analysed_as, name, area_geom, r)]

\* "Plot 1" and "Plot 2": one layer analysed as extracted.
AnalyzeLayer(run, layers_poligonos, name) ==
    IF run.raised THEN run
    ELSE IF ~HasLayer(layers_poligonos, name)
    THEN [run EXCEPT !.raised = TRUE, !.error = "KeyError"]
    ELSE RunAfter(run, name, layers_poligonos[name],
                  processar_todas_grades(run.w, layers_poligonos[name]))

\* "Plot 3": the ring between Adjacent Area and Ground Risk Buffer.
AnalyzeRing(run, layers_poligonos) ==
    IF run.raised THEN run
    ELSE IF HasLayer(layers_poligonos, AA) /\ HasLayer(layers_poligonos, GRB)
    THEN LET area_anel == Difference(layers_poligonos[AA],
                                     layers_poligonos[GRB])
         IN  RunAfter(run, AA, area_anel,
                      processar_todas_grades(run.w, area_anel))
    ELSE [run EXCEPT !.warned = TRUE]

RunStart(w) ==
    [results |-> <<>>, raised |-> FALSE, error |-> "", w |-> w,
     analysed |-> {}, warned |-> FALSE, analysed_as |-> <<>>]

\* What analyze_population hands back at the end of the run.
RunResult(run, layers_poligonos) ==
    [ret |-> IF run.raised THEN None ELSE Some(run.results),
     raised |-> run.raised, error |-> run.error, w |-> run.w,
     layers |-> DOMAIN layers_poligonos,
     analysed |-> run.analysed, warned |-> run.warned,
     analysed_as |-> run.analysed_as]

AnalyzeLayers(w, layers_poligonos) ==
    IF DOMAIN layers_poligonos = {}
    THEN [ret |-> None, raised |-> FALSE, error |-> "", w |-> w,
          layers |-> {}, analysed |-> {}, warned |-> FALSE,
          analysed_as |-> <<>>]
    ELSE RunResult(
           AnalyzeRing(
             AnalyzeLayer(
               AnalyzeLayer(RunStart(w), layers_poligonos, FG),
               layers_poligonos, GRB),
             layers_poligonos),
           layers_poligonos)

\* Result of a call: None or the results mapping, whether an exception left
\* the function and which, the world after it, the layers extracted, the
\* layers whose analysis was started, and whether the Adjacent Area warning
\* was printed.
analyze_population(w, kml_file) ==
    AnalyzeLayers(w, extrair_layers_kml(kml_file, layers_kml))

(* ------------------------------ generate_pdf_report -------------------- *)

\* The density limits the report compares against, in inhabitants per km2.
LimiteMaxima == 5
LimiteMedia == 50

NaoConforme == "NÃO CONFORME"
Atencao == "ATENÇÃO"
Conforme == "CONFORME"
Excede == "EXCEDE"
Aprovada == "ÁREA APROVADA"
NaoAprovada == "ÁREA NÃO APROVADA"

\* The Flight Geography status with ">=" where ">" is meant.
status_fg_geq(densidade_fg) ==
    IF RLeq(Rat(LimiteMaxima, 1), densidade_fg) THEN NaoConforme
    ELSE IF RPos(densidade_fg) THEN Atencao
    ELSE Conforme

\* Summary table, Flight Geography row: status from densidade_maxima.
status_fg(densidade_fg) ==
    IF RLt(Rat(LimiteMaxima, 1), densidade_fg) THEN NaoConforme
    ELSE IF RPos(densidade_fg) THEN Atencao
    ELSE Conforme

\* Summary table, Ground Risk Buffer row: status from densidade_maxima.
status_grb(densidade_grb) ==
    IF RLt(Rat(LimiteMaxima, 1), densidade_grb) THEN NaoConforme
    ELSE IF RPos(densidade_grb) THEN Atencao
    ELSE Conforme

\* The Adjacent Area status with the ATENÇÃO branch of the other two rows.
status_adj_warns(densidade_adj) ==
    IF RLt(Rat(LimiteMedia, 1), densidade_adj) THEN NaoConforme
    ELSE IF RPos(densidade_adj) THEN Atencao
    ELSE Conforme

\* Summary table, Adjacent Area row: status from densidade_media.
status_adj(densidade_adj) ==
    IF RLt(Rat(LimiteMedia, 1), densidade_adj) THEN NaoConforme
    ELSE Conforme

\* overall_compliant overwritten by every row: the last row decides.
AfterRowLastWins(overall_compliant, status) == status # NaoConforme

\* overall_compliant after a row: set to False by a row that is NÃO CONFORME
\* and left alone by any other row.
AfterRow(overall_compliant, status) ==
    IF status = NaoConforme THEN FALSE ELSE overall_compliant

\* The rows of summary_data after the header, as a mapping from the layers
\* present in results to their status.
SummaryStatus(results) ==
    [name \in (DOMAIN results) \cap {FG, GRB, AA} |->
        IF name = FG THEN status_fg(results[FG].densidade_maxima)
        ELSE IF name = GRB THEN status_grb(results[GRB].densidade_maxima)
        ELSE status_adj(results[AA].densidade_media)]

\* overall_compliant when the verdict is written: True, then the three rows
\* in the order Flight Geography, Ground Risk Buffer, Adjacent Area.
OverallCompliant(results) ==
    LET rows == SummaryStatus(results)
        row(overall_compliant, name) ==
            IF name \in DOMAIN rows
            THEN AfterRow(overall_compliant, rows[name])
            ELSE overall_compliant
    IN  row(row(row(TRUE, FG), GRB), AA)

\* The verdict paragraph.
Verdict(overall_compliant) ==
    IF overall_compliant THEN Aprovada ELSE NaoAprovada

\* "Análise Detalhada": the word in bold of each layer's paragraph.
detail_fg(densidade_fg) ==
    IF RLt(Rat(LimiteMaxima, 1), densidade_fg) THEN Excede
    ELSE IF RPos(densidade_fg) THEN Atencao
    ELSE Conforme

detail_grb(densidade_grb) ==
    IF RLt(Rat(LimiteMaxima, 1), densidade_grb) THEN Excede
    ELSE IF RPos(densidade_grb) THEN Atencao
    ELSE Conforme

detail_adj(densidade_adj) ==
    IF RLt(Rat(LimiteMedia, 1), densidade_adj) THEN Excede
    ELSE Conforme

DetailText(results) ==
    [name \in (DOMAIN results) \cap {FG, GRB, AA} |->
        IF name = FG THEN detail_fg(results[FG].densidade_maxima)
        ELSE IF name = GRB THEN detail_grb(results[GRB].densidade_maxima)
        ELSE detail_adj(results[AA].densidade_media)]

\* What the report says: the status column of the summary table, the
\* verdict, and the detailed analysis.
generate_pdf_report(results) ==
    [summary |-> SummaryStatus(results),
     overall_compliant |-> OverallCompliant(results),
     verdict |-> Verdict(OverallCompliant(results)),
     detail |-> DetailText(results)]

(* ------------------------------ actions -------------------------------- *)

\* No call has been made since the environment last changed.
Idle == [op |-> "idle"]

Threads == 1..NThreads

SetWorld(w) ==
    /\ _GRID_CACHE' = w.cache
    /\ _QUADRANT_INDEX' = w.qindex
    /\ disk' = w.disk
    /\ diskIndex' = w.diskIndex

Init ==
    /\ remoteIndex \in RemoteStates
    /\ remote \in [TileIds -> RemoteStates]
    /\ diskIndex = "absent"
    /\ disk = [id \in TileIds |-> "absent"]
    /\ _GRID_CACHE = <<>>
    /\ _QUADRANT_INDEX = None
    /\ last = Idle
    /\ threads = [t \in Threads |-> [pc |-> "start"]]

\* The provider's answer for the 500 km grid changes.
SetRemoteIndex ==
    /\ \E v \in RemoteStates \ {remoteIndex} : remoteIndex' = v
    /\ last' = Idle
    /\ UNCHANGED <<remote, diskIndex, disk, _GRID_CACHE, _QUADRANT_INDEX, threads>>

\* The provider's answer for one tile changes.
SetRemote ==
    /\ \E id \in TileIds : \E v \in RemoteStates \ {remote[id]} :
          remote' = [remote EXCEPT ![id] = v]
    /\ last' = Idle
    /\ UNCHANGED <<remoteIndex, diskIndex, disk, _GRID_CACHE, _QUADRANT_INDEX,
                   threads>>

CallIndice ==
    \E r \in {carregar_indice_quadrantes(World)} :
        /\ SetWorld(r.w)
        /\ last' = [op |-> "carregar_indice_quadrantes",
                    ret |-> r.ret, raised |-> r.raised,
                    loaded_before |-> ~IsNone(_QUADRANT_INDEX),
                    downloaded |-> r.downloaded, read |-> r.read]
        /\ UNCHANGED <<remoteIndex, remote, threads>>

CallIdentificar ==
    \E area_geom \in Polygons :
      \E r \in {identificar_grades_relevantes(World, area_geom)} :
        /\ SetWorld(r.w)
        /\ last' = [op |-> "identificar_grades_relevantes",
                    area_geom |-> area_geom,
                    ret |-> r.ret, raised |-> r.raised]
        /\ UNCHANGED <<remoteIndex, remote, threads>>

CallGrid ==
    \E grade_id \in TileIds, use_cache \in BOOLEAN :
      \E r \in {carregar_grid_ibge(World, grade_id, use_cache)} :
        /\ SetWorld(r.w)
        /\ last' = [op |-> "carregar_grid_ibge",
                    grade_id |-> grade_id, use_cache |-> use_cache,
                    ret |-> r.ret, raised |-> r.raised,
                    downloaded |-> r.downloaded, parsed |-> r.parsed,
                    cached_before |-> grade_id \in DOMAIN _GRID_CACHE]
        /\ UNCHANGED <<remoteIndex, remote, threads>>

CallProcessar ==
    \E area_geom \in Polygons :
      \E r \in {processar_todas_grades(World, area_geom)} :
        /\ SetWorld(r.w)
        /\ last' = [op |-> "processar_todas_grades", area_geom |-> area_geom,
                    ret |-> r.ret, raised |-> r.raised,
                    grades |-> r.grades, dados |-> r.dados]
        /\ UNCHANGED <<remoteIndex, remote, threads>>

CallAnalyze ==
    \E kml_file \in Documents :
      \E r \in {analyze_population(World, kml_file)} :
        /\ SetWorld(r.w)
        /\ last' = [op |-> "analyze_population", kml_file |-> kml_file,
                    ret |-> r.ret, raised |-> r.raised, error |-> r.error,
                    layers |-> r.layers, analysed |-> r.analysed,
                    warned |-> r.warned, analysed_as |-> r.analysed_as]
        /\ UNCHANGED <<remoteIndex, remote, threads>>

(* ------------------ carregar_grid_ibge, step by step ------------------- *)

\* Threads that each call carregar_grid_ibge(grade_id) once, with the
\* default use_cache=True.  A thread is at one of the statements of the
\* function; nothing in the function holds a lock, so the threads
\* interleave between any two of them.

AtPc(t, pc) == threads[t].pc = pc

Goto(t, rec) == threads' = [threads EXCEPT ![t] = rec]

\* The call: the thread enters the function.
T_call(t) ==
    /\ AtPc(t, "start")
    /\ \E grade_id \in TileIds :
          Goto(t, [pc |-> "check", grade_id |-> grade_id,
                   downloaded |-> FALSE, parsed |-> FALSE])
    /\ UNCHANGED <<remoteIndex, remote, diskIndex, disk, _GRID_CACHE,
                   _QUADRANT_INDEX, last>>

\* if use_cache and grade_id in _GRID_CACHE: return _GRID_CACHE[grade_id]
T_check(t) ==
    /\ AtPc(t, "check")
    /\ IF CacheHit(_GRID_CACHE, threads[t].grade_id, TRUE)
       THEN Goto(t, [threads[t] EXCEPT !.pc = "returned"])
       ELSE Goto(t, [threads[t] EXCEPT !.pc = "exists"])
    /\ UNCHANGED <<remoteIndex, remote, diskIndex, disk, _GRID_CACHE,
                   _QUADRANT_INDEX, last>>

\* if not os.path.exists(shp_path)
T_exists(t) ==
    /\ AtPc(t, "exists")
    /\ IF disk[threads[t].grade_id] = "absent"
       THEN Goto(t, [threads[t] EXCEPT !.pc = "download"])
       ELSE Goto(t, [threads[t] EXCEPT !.pc = "read"])
    /\ UNCHANGED <<remoteIndex, remote, diskIndex, disk, _GRID_CACHE,
                   _QUADRANT_INDEX, last>>

\* requests.get and extractall, or the except branch returning None
T_download(t) ==
    /\ AtPc(t, "download")
    /\ LET id == threads[t].grade_id
       IN  IF remote[id] = "error"
           THEN /\ Goto(t, [threads[t] EXCEPT !.pc = "absent", !.downloaded = TRUE])
                /\ disk' = disk
           ELSE /\ Goto(t, [threads[t] EXCEPT !.pc = "read", !.downloaded = TRUE])
                /\ disk' = [disk EXCEPT ![id] =
                              IF remote[id] = "ok" THEN "good" ELSE "bad"]
    /\ UNCHANGED <<remoteIndex, remote, diskIndex, _GRID_CACHE,
                   _QUADRANT_INDEX, last>>

\* dados = gpd.read_file(shp_path)
T_read(t) ==
    /\ AtPc(t, "read")
    /\ IF disk[threads[t].grade_id] = "bad"
       THEN Goto(t, [threads[t] EXCEPT !.pc = "raised"])
       ELSE Goto(t, [threads[t] EXCEPT !.pc = "insert", !.parsed = TRUE])
    /\ UNCHANGED <<remoteIndex, remote, diskIndex, disk, _GRID_CACHE,
                   _QUADRANT_INDEX, last>>

\* _GRID_CACHE[grade_id] = dados; return dados, grade_id
T_insert(t) ==
    /\ AtPc(t, "insert")
    /\ _GRID_CACHE' = CachePut(_GRID_CACHE, threads[t].grade_id,
                               TileFile(threads[t].grade_id))
    /\ Goto(t, [threads[t] EXCEPT !.pc = "returned"])
    /\ UNCHANGED <<remoteIndex, remote, diskIndex, disk, _QUADRANT_INDEX, last>>

(* --------------------------- specifications ---------------------------- *)

\* The macro index alone.
NextIndex == SetRemoteIndex \/ CallIndice \/ CallIdentificar
SpecIndex == Init /\ [][NextIndex]_vars

\* The tile cache alone, called sequentially.
NextGrid == SetRemote \/ CallGrid
SpecGrid == Init /\ [][NextGrid]_vars

\* The per-polygon analysis.
NextProc == SetRemoteIndex \/ SetRemote \/ CallProcessar
SpecProc == Init /\ [][NextProc]_vars

\* Concurrent callers of the tile cache.
NextConc ==
    \E t \in Threads :
        \/ T_call(t) \/ T_check(t) \/ T_exists(t)
        \/ T_download(t) \/ T_read(t) \/ T_insert(t)
SpecConc == Init /\ [][NextConc]_vars

\* Whole runs of analyze_population, one after the other in one process,
\* against a provider whose answers are fixed from the start.
NextRun == CallAnalyze
SpecRun == Init /\ [][NextRun]_vars

\* Everything the module offers, called in any order.
(* ------------------------------ the report ----------------------------- *)

\* Statistics records the report is called with: densities at zero, between
\* zero and the limit, at the limit, just above it and well above it.
SampleStats ==
    { Stats(0, Rat(1, 1), RZero, RZero),
      Stats(2, Rat(1, 1), Rat(1, 1), Rat(2, 1)),
      Stats(5, Rat(1, 1), Rat(5, 1), Rat(5, 1)),
      Stats(3, Rat(1, 1), Rat(3, 1), Rat(11, 2)),
      Stats(6, Rat(1, 1), Rat(6, 1), Rat(6, 1)),
      Stats(50, Rat(1, 1), Rat(50, 1), Rat(51, 1)),
      Stats(101, Rat(2, 1), Rat(101, 2), Rat(51, 1)),
      Stats(51, Rat(1, 1), Rat(51, 1), Rat(1, 2)) }

\* The results mappings: any of the three analysed layers present or absent.
SampleResults == UNION {[S -> SampleStats] : S \in SUBSET {FG, GRB, AA}}

ReportRecord(results, analysed) ==
    LET r == generate_pdf_report(results)
    IN  [op |-> "generate_pdf_report", results |-> results,
         summary |-> r.summary, overall_compliant |-> r.overall_compliant,
         verdict |-> r.verdict, detail |-> r.detail, analysed |-> analysed]

\* generate_pdf_report(results, ...) on a results mapping.
CallReport ==
    \E results \in SampleResults :
        /\ last' = ReportRecord(results, DOMAIN results)
        /\ UNCHANGED <<remoteIndex, remote, diskIndex, disk,
                       _GRID_CACHE, _QUADRANT_INDEX, threads>>

\* generate_pdf_report(results, ...) on what analyze_population returned.
CallReportOfRun ==
    /\ last.op = "analyze_population"
    /\ ~IsNone(last.ret)
    /\ last' = ReportRecord(Val(last.ret), last.analysed)
    /\ UNCHANGED <<remoteIndex, remote, diskIndex, disk,
                   _GRID_CACHE, _QUADRANT_INDEX, threads>>

\* The report reads nothing but its arguments: one environment is enough.
InitReport ==
    /\ Init
    /\ remoteIndex = "ok"
    /\ \A id \in TileIds : remote[id] = "ok"

NextReport == CallReport
SpecReport == InitReport /\ [][NextReport]_vars

NextRunReport == CallAnalyze \/ CallReportOfRun
SpecRunReport == Init /\ [][NextRunReport]_vars

(* ------------------------------ the extraction ------------------------- *)

\* The lists of names extrair_layers_kml is asked for.
NameLists ==
    { <<>>, layers_kml, <<AA, GRB, CV, FG>>, <<CV>>, <<AA, FG>>,
      <<FG, AA>>, <<GRB, CV, AA>>, <<CV, FG, GRB>> }

\* extrair_layers_kml(kml_file, layer_names), the document already read.
CallExtrair ==
    \E gdf \in Documents, layer_names \in NameLists :
        /\ last' = [op |-> "extrair_layers_kml", gdf |-> gdf,
                    layer_names |-> layer_names,
                    ret |-> extrair_layers_kml(gdf, layer_names)]
        /\ UNCHANGED <<remoteIndex, remote, diskIndex, disk,
                       _GRID_CACHE, _QUADRANT_INDEX, threads>>

\* The extraction reads nothing but the document: one environment is enough.
NextExtract == CallExtrair
SpecExtract == InitReport /\ [][NextExtract]_vars

(* ------------------------------ two calls ------------------------------ *)

\* The first of two calls on a polygon.
CallProcessarFirst == last.op = "idle" /\ CallProcessar

\* Between the two calls the provider's answer for the index or for one
\* tile changes; the memory and the disk are left alone.
ProviderChangesBetween ==
    /\ last.op = "processar_todas_grades"
    /\ \/ /\ \E v \in RemoteStates \ {remoteIndex} : remoteIndex' = v
          /\ UNCHANGED remote
       \/ /\ \E id \in TileIds : \E v \in RemoteStates \ {remote[id]} :
                remote' = [remote EXCEPT ![id] = v]
          /\ UNCHANGED remoteIndex
    /\ last' = [last EXCEPT !.op = "provider_changed"]
    /\ UNCHANGED <<diskIndex, disk, _GRID_CACHE, _QUADRANT_INDEX, threads>>

\* The second call, on the polygon of the first.
CallProcessarAgain ==
    /\ last.op \in {"processar_todas_grades", "provider_changed"}
    /\ \E r \in {processar_todas_grades(World, last.area_geom)} :
         /\ SetWorld(r.w)
         /\ last' = [op |-> "processar_todas_grades_again",
                     area_geom |-> last.area_geom,
                     first_ret |-> last.ret, first_raised |-> last.raised,
                     ret |-> r.ret, raised |-> r.raised,
                     provider_changed |-> last.op = "provider_changed",
                     cache_between |-> _GRID_CACHE,
                     cache_after |-> r.w.cache]
         /\ UNCHANGED <<remoteIndex, remote, threads>>

NextTwice ==
    \/ SetRemoteIndex
    \/ SetRemote
    \/ CallGrid
    \/ CallProcessarFirst
    \/ ProviderChangesBetween
    \/ CallProcessarAgain
SpecTwice == Init /\ [][NextTwice]_vars

Next ==
    \/ SetRemoteIndex \/ SetRemote
    \/ CallIndice \/ CallIdentificar \/ CallGrid \/ CallProcessar \/ CallAnalyze
    \/ NextConc
Spec == Init /\ [][Next]_vars

(* ------------------------------- claims -------------------------------- *)

IsAnalyze == last.op = "analyze_population"
IsProcessar == last.op = "processar_todas_grades"
IsGrid == last.op = "carregar_grid_ibge"
IsIdentificar == last.op = "identificar_grades_relevantes"

\* C1: a run of analyze_population ends in failure only when no layer was
\* extracted; with any non-empty set of extracted layers it returns a
\* results mapping and does not raise.  (Runs in which reading a shapefile
\* failed are left aside: they are the subject of C6 and C10.)
C1_PartialExtractionNotFatal ==
    (IsAnalyze /\ last.error # "read_file") =>
        /\ (last.layers = {} => IsNone(last.ret) /\ ~last.raised)
        /\ (last.layers # {} => ~IsNone(last.ret) /\ ~last.raised)

\* C5: with caching enabled, a grid handed back is in _GRID_CACHE under its
\* identifier; a call for an identifier already cached returns the cached
\* grid with no download and no read of the shapefile; and no step removes
\* or replaces a cache entry.
C5_CallsMemoized ==
    (IsGrid /\ last.use_cache) =>
        /\ (~IsNone(last.ret) =>
               /\ last.grade_id \in DOMAIN _GRID_CACHE
               /\ _GRID_CACHE[last.grade_id] = Val(last.ret))
        /\ (last.cached_before =>
               /\ ~last.raised /\ ~IsNone(last.ret)
               /\ ~last.downloaded /\ ~last.parsed)

C5_NeverEvicted ==
    \A id \in DOMAIN _GRID_CACHE :
        id \in DOMAIN _GRID_CACHE' /\ _GRID_CACHE'[id] = _GRID_CACHE[id]

\* C5: every state satisfies C5_CallsMemoized and every step C5_NeverEvicted.
C5_Memoized == [](C5_CallsMemoized) /\ [][C5_NeverEvicted]_vars

C5_Witness ==
    IsGrid /\ last.use_cache /\ last.cached_before /\ ~IsNone(last.ret)

\* C2: a per-polygon analysis that finds no intersecting cell (empty
\* polygon, polygon outside every macro cell, index unavailable, every
\* candidate tile absent or without an intersecting cell) returns a
\* statistics record of four zeros and does not raise.
C2_NoDataIsZeroRecord ==
    (IsProcessar /\ last.dados = <<>>) =>
        ~last.raised /\ last.ret = Some(ZeroStats)

\* C3 as stated: whenever the area is positive, the mean density of the
\* record is at most its maximum density.
C3_MeanAtMostMax ==
    (IsProcessar /\ ~IsNone(last.ret) /\ RPos(Val(last.ret).area_km2)) =>
        RLeq(Val(last.ret).densidade_media, Val(last.ret).densidade_maxima)

\* C3 amended: the mean density is at most the maximum density whenever the
\* polygon's area is at least the summed area of the rows counted.
C3_MeanAtMostMaxWhenCovering ==
    (IsProcessar /\ ~IsNone(last.ret)
        /\ SumArea(last.dados) <= ProjectedArea(last.area_geom)) =>
        RLeq(Val(last.ret).densidade_media, Val(last.ret).densidade_maxima)

C3_Witness ==
    /\ IsProcessar /\ ~IsNone(last.ret)
    /\ SumArea(last.dados) <= ProjectedArea(last.area_geom)
    /\ RPos(Val(last.ret).densidade_media)
    /\ RLt(Val(last.ret).densidade_media, Val(last.ret).densidade_maxima)

\* C4: among concurrent callers for one identifier whose archive the
\* provider serves, at most one requests the archive and at most one reads
\* the shapefile.
C4_AtMostOneFetch ==
    \A id \in TileIds :
        remote[id] = "ok" =>
            /\ Cardinality({t \in Threads : threads[t].pc # "start"
                              /\ threads[t].grade_id = id
                              /\ threads[t].downloaded}) <= 1
            /\ Cardinality({t \in Threads : threads[t].pc # "start"
                              /\ threads[t].grade_id = id
                              /\ threads[t].parsed}) <= 1

\* C6: when the provider has no usable archive for a tile, the call that
\* requested it does not raise, reports the tile absent and caches nothing
\* for it.
C6_ProviderFailureIsAbsent ==
    (IsGrid /\ last.downloaded /\ remote[last.grade_id] # "ok") =>
        /\ ~last.raised
        /\ IsNone(last.ret)
        /\ last.grade_id \notin DOMAIN _GRID_CACHE

\* C7: the Adjacent Area step runs only with both Adjacent Area and Ground
\* Risk Buffer extracted; with either missing and some layer present the
\* run warns, does not raise, and returns results without an Adjacent Area
\* entry.  (Runs in which reading a shapefile failed are left aside.)
C7_AdjacentAreaSkipped ==
    (IsAnalyze /\ last.error # "read_file") =>
        /\ (AA \in last.analysed => {AA, GRB} \subseteq last.layers)
        /\ ((last.layers # {} /\ ~({AA, GRB} \subseteq last.layers)) =>
               /\ last.warned /\ ~last.raised
               /\ ~IsNone(last.ret)
               /\ AA \notin DOMAIN Val(last.ret))

\* The rows of a combined collection, each cell taken once.
DistinctCells(rows) == {[cell |-> rows[k].cell, TOTAL |-> rows[k].TOTAL] :
                          k \in 1..Len(rows)}

RECURSIVE SumCells(_)
SumCells(S) ==
    IF S = {} THEN 0
    ELSE LET c == CHOOSE x \in S : TRUE IN c.TOTAL + SumCells(S \ {c})

\* C8: for a polygon spanning two tiles, every cell is in the combined
\* collection once and the total population is the sum over the distinct
\* intersecting cells.
C8_NoDoubleCounting ==
    (IsProcessar /\ ~IsNone(last.ret) /\ Len(last.grades) = 2) =>
        /\ \A i, j \in 1..Len(last.dados) :
              last.dados[i].cell = last.dados[j].cell => i = j
        /\ Val(last.ret).total_pessoas = SumCells(DistinctCells(last.dados))

TileIdOf(q) == IntOf(StripId(q.QUADRANTE))
RangeOf(seq) == {seq[k] : k \in 1..Len(seq)}
IndexLoaded == ~IsNone(_QUADRANT_INDEX)

\* C9 as stated: a polygon within one macro cell, its boundary included,
\* gets exactly that cell's identifier.
C9_ExactlyOneTile ==
    (IsIdentificar /\ ~last.raised /\ IndexLoaded) =>
        \A q \in MacroCells :
            (last.area_geom # {} /\ Within(last.area_geom, q.geom)) =>
                last.ret = <<TileIdOf(q)>>

\* C9 amended: a polygon in the interior of one macro cell gets exactly
\* that cell's identifier; a polygon within the cell that reaches its
\* boundary gets that identifier and those of the macro cells it touches,
\* and no other.
C9_ExactlyOneTileInside ==
    (IsIdentificar /\ ~last.raised /\ IndexLoaded) =>
        \A q \in MacroCells :
            (last.area_geom # {} /\ Within(last.area_geom, q.geom)) =>
                /\ StrictlyWithin(last.area_geom, q.geom) =>
                      last.ret = <<TileIdOf(q)>>
                /\ RangeOf(last.ret) =
                      {TileIdOf(q)} \cup
                      {TileIdOf(n) : n \in {m \in MacroCells :
                          Intersects(m.geom, last.area_geom)}}

C9_Witness ==
    /\ IsIdentificar /\ ~last.raised /\ IndexLoaded
    /\ \E q \in MacroCells :
          /\ last.area_geom # {}
          /\ StrictlyWithin(last.area_geom, q.geom)
          /\ last.ret = <<TileIdOf(q)>>

\* C10: identificar_grades_relevantes returns the empty list and does not
\* raise when the index could not be loaded or no macro cell intersects the
\* polygon.
C10_EmptyNotError ==
    (IsIdentificar /\
        (~IndexLoaded \/ ~\E q \in MacroCells : Intersects(q.geom, last.area_geom))) =>
        last.ret = <<>> /\ ~last.raised

(* ------------------------------ C11 .. C13 ----------------------------- *)

IsReport == last.op = "generate_pdf_report"

\* The status the limit rule gives a density: above the limit, between zero
\* and the limit, or zero.
AboveLimit(d, limit) == d[1] > limit * d[2]
Positive(d) == d[1] > 0

\* C11: Flight Geography and Ground Risk Buffer get their status from
\* densidade_maxima alone against the limit of 5: above 5 is NÃO CONFORME,
\* above 0 and at most 5 is ATENÇÃO, exactly 0 is CONFORME; every density gets
\* one of the three, and the detailed analysis says the same as the summary
\* table (EXCEDE where the table says NÃO CONFORME).
C11_MaxDensityStatus ==
    IsReport =>
        \A name \in (DOMAIN last.results) \cap {FG, GRB} :
            LET d == last.results[name].densidade_maxima
                s == last.summary[name]
                t == last.detail[name]
            IN  /\ name \in DOMAIN last.summary
                /\ name \in DOMAIN last.detail
                /\ s \in {NaoConforme, Atencao, Conforme}
                /\ (s = NaoConforme) = AboveLimit(d, 5)
                /\ (s = Atencao) = (Positive(d) /\ ~AboveLimit(d, 5))
                /\ (s = Conforme) = ~Positive(d)
                /\ (t = Excede) = (s = NaoConforme)
                /\ (t = Atencao) = (s = Atencao)
                /\ (t = Conforme) = (s = Conforme)

\* A report on a Flight Geography exactly at the limit, which is ATENÇÃO, and
\* a Ground Risk Buffer above it.
C11_Witness ==
    /\ IsReport
    /\ {FG, GRB} \subseteq DOMAIN last.results
    /\ last.results[FG].densidade_maxima = Rat(5, 1)
    /\ last.summary[FG] = Atencao
    /\ last.summary[GRB] = NaoConforme
    /\ last.detail[GRB] = Excede

\* C12: Adjacent Area gets its status from densidade_media alone against the
\* limit of 50: above 50 is NÃO CONFORME, anything at most 50 is CONFORME, and
\* ATENÇÃO is never given to this layer, in the table or in the text.
C12_MeanDensityStatus ==
    (IsReport /\ AA \in DOMAIN last.results) =>
        LET d == last.results[AA].densidade_media
            s == last.summary[AA]
            t == last.detail[AA]
        IN  /\ (s = NaoConforme) = AboveLimit(d, 50)
            /\ (s = Conforme) = ~AboveLimit(d, 50)
            /\ s # Atencao
            /\ t # Atencao
            /\ (t = Excede) = (s = NaoConforme)

\* A report on an Adjacent Area whose mean is positive and exactly 50, with a
\* maximum above it: CONFORME.
C12_Witness ==
    /\ IsReport
    /\ AA \in DOMAIN last.results
    /\ last.results[AA].densidade_media = Rat(50, 1)
    /\ last.results[AA].densidade_maxima = Rat(51, 1)
    /\ last.summary[AA] = Conforme

\* C13: the verdict is ÁREA NÃO APROVADA exactly when some layer of the
\* results is NÃO CONFORME, whatever the other layers are and wherever in the
\* order that layer comes; ATENÇÃO alone leaves the verdict ÁREA APROVADA.
C13_VerdictFailsOnAnyNonCompliant ==
    IsReport =>
        LET nc == {name \in DOMAIN last.summary :
                      last.summary[name] = NaoConforme}
        IN  /\ (last.verdict = NaoAprovada) = (nc # {})
            /\ (last.verdict = Aprovada) = (nc = {})
            /\ last.overall_compliant = (nc = {})

\* A report whose first row is NÃO CONFORME and whose later rows are not:
\* not approved; the later rows do not undo it.
C13_Witness ==
    /\ IsReport
    /\ DOMAIN last.summary = {FG, GRB, AA}
    /\ last.summary[FG] = NaoConforme
    /\ last.summary[GRB] = Atencao
    /\ last.summary[AA] = Conforme
    /\ last.verdict = NaoAprovada

(* ------------------------------ C17 ------------------------------------ *)

IsExtrair == last.op = "extrair_layers_kml"

\* The polygonal features of a document that carry a name.
PolygonalNamed(gdf, name) ==
    {f \in gdf : f.Name = name /\
                 (f.gtype = "Polygon" \/ f.gtype = "MultiPolygon")}

\* C17: the mapping extrair_layers_kml returns has as keys exactly the
\* requested names that have at least one Polygon or MultiPolygon feature in
\* the document, each mapped to the union of those features' geometries; a
\* name that is absent or has only other geometry is left out, wherever it
\* comes in the list, and the names after it are still extracted.
C17_KeysAreNamesWithPolygons ==
    IsExtrair =>
        LET requested == {last.layer_names[k] : k \in DOMAIN last.layer_names}
        IN  /\ DOMAIN last.ret =
                 {n \in requested : PolygonalNamed(last.gdf, n) # {}}
            /\ \A n \in DOMAIN last.ret :
                 UnitsOf(last.ret[n]) =
                   UNION {UnitsOf(f.geometry) : f \in PolygonalNamed(last.gdf, n)}

\* The four names asked for in a document where Flight Geography has only a
\* line and Adjacent Area has a polygon and a multipolygon: Adjacent Area,
\* the last name, is extracted as their union.
C17_Witness ==
    /\ IsExtrair
    /\ last.layer_names = layers_kml
    /\ last.gdf = {Feature(FG, "LineString", {}),
                   Feature(AA, "Polygon", {<<1, 6>>}),
                   Feature(AA, "MultiPolygon", {<<0, 1>>, <<7, 8>>})}
    /\ DOMAIN last.ret = {AA}
    /\ last.ret[AA] = {<<0, 6>>, <<7, 8>>}

(* ------------------------------ C18 ------------------------------------ *)

IsIndice == last.op = "carregar_indice_quadrantes"

\* A call made with _QUADRANT_INDEX set returns it with no download and no
\* read; a call made with it unset attempts the load; a call that returns
\* None leaves it unset, and one that returns a value has stored that value.
C18_CallsReuse ==
    IsIndice =>
        /\ last.loaded_before =>
             /\ ~IsNone(last.ret)
             /\ last.ret = _QUADRANT_INDEX
             /\ ~last.downloaded /\ ~last.read /\ ~last.raised
        /\ ~last.loaded_before => (last.downloaded \/ last.read)
        /\ IsNone(last.ret) => IsNone(_QUADRANT_INDEX)
        /\ ~IsNone(last.ret) => _QUADRANT_INDEX = last.ret

\* No step clears or replaces a set _QUADRANT_INDEX.
C18_NeverReplaced ==
    ~IsNone(_QUADRANT_INDEX) => _QUADRANT_INDEX' = _QUADRANT_INDEX

\* C18: the macro index is loaded at most once: once _QUADRANT_INDEX is set,
\* every later call returns it unchanged without downloading or reading, and
\* nothing clears or replaces it; a load that fails leaves it unset, so the
\* next call attempts the load again.
C18_LoadedOnce == [](C18_CallsReuse) /\ [][C18_NeverReplaced]_vars

\* A call returns the index from memory while the provider is unreachable.
C18_Witness ==
    /\ IsIndice
    /\ last.loaded_before
    /\ remoteIndex = "error"
    /\ last.ret = Some(MacroCells)
    /\ ~last.downloaded

(* ------------------------------ C16 ------------------------------------ *)

IsAgain == last.op = "processar_todas_grades_again"

\* The second call returned what the first returned.
SameAsFirst ==
    last.ret = last.first_ret /\ last.raised = last.first_raised

\* C16 as stated: two calls of the per-polygon analysis on the same polygon,
\* with the tile cache unchanged between them, return identical records
\* (both calls returning a record).
C16_Idempotent ==
    (IsAgain /\ ~IsNone(last.ret) /\ ~IsNone(last.first_ret)) =>
        last.ret = last.first_ret

\* C16: two calls of the per-polygon analysis on the same polygon, with the
\* tile cache and the provider's answers unchanged between them, return
\* identical records, whether the second call finds a tile in the cache the
\* first call filled, or on disk, or fetches it again.
C16_IdempotentUnderSameProvider ==
    (IsAgain /\ ~last.provider_changed) => SameAsFirst

\* A second call that is served tile 9 from the cache the first call filled
\* by download, and returns the same statistics.
C16_Witness ==
    /\ IsAgain
    /\ ~last.provider_changed
    /\ ~IsNone(last.ret)
    /\ 9 \in DOMAIN last.cache_between
    /\ last.cache_after = last.cache_between
    /\ SameAsFirst

(* ------------------------------ C15 ------------------------------------ *)

\* The cells of the tile files.
AllCells == {CellA, CellB, CellC, CellD}

\* C15: a polygon of exactly one cell's area lying inside a single cell of
\* population P gives total = P, area = the polygon's area, mean = P / area
\* and max = P / cell area; the neighbouring cells, which the polygon at most
\* touches on its boundary, contribute no row and no population.
C15_SingleCellPolygon ==
    IsProcessar =>
        \A c \in AllCells :
            (/\ last.area_geom = c.geom
             /\ ~IsNone(last.ret)
             /\ \E k \in 1..Len(last.dados) : last.dados[k].cell = c.cell) =>
                LET s == Val(last.ret)
                    units == ProjectedArea(c.geom)
                IN  /\ s.total_pessoas = c.TOTAL
                    /\ REq(s.area_km2, Rat(units, SqUnitsPerKm2))
                    /\ REq(s.densidade_media,
                           Rat(c.TOTAL * SqUnitsPerKm2, units))
                    /\ REq(s.densidade_maxima,
                           Rat(c.TOTAL * SqUnitsPerKm2, units))
                    /\ \A k \in 1..Len(last.dados) :
                           last.dados[k].cell = c.cell

(* ------------------------------ C14 ------------------------------------ *)

\* C14: the geometry analysed for Adjacent Area is the difference of the
\* Adjacent Area polygon and the Ground Risk Buffer polygon; when the inner
\* polygon lies inside the outer one the ring's area is the outer area minus
\* the inner area; and the rows the ring's statistics are computed from
\* contain no cell that lies inside the Ground Risk Buffer polygon, cells
\* that reach its boundary from inside included.
C14_RingExcludesInnerCells ==
    (IsAnalyze /\ AA \in DOMAIN last.analysed_as) =>
        LET layers_poligonos == extrair_layers_kml(last.kml_file, layers_kml)
            outer == layers_poligonos[AA]
            inner == layers_poligonos[GRB]
            area_anel == last.analysed_as[AA].area_geom
            dados == last.analysed_as[AA].dados
        IN  /\ UnitsOf(area_anel) = UnitsOf(outer) \ UnitsOf(inner)
            /\ Within(inner, outer) =>
                 ProjectedArea(area_anel) =
                   ProjectedArea(outer) - ProjectedArea(inner)
            /\ \A k \in 1..Len(dados) : ~Within(dados[k].geom, inner)

(* ------------------------------ C19 ------------------------------------ *)

\* The layer is NÃO CONFORME by the limit rule of its role.
ExceedsLimit(results, name) ==
    IF name = AA THEN AboveLimit(results[name].densidade_media, 50)
    ELSE AboveLimit(results[name].densidade_maxima, 5)

\* A run that returns results has a key for exactly the layers whose
\* analysis was made and found rows; a layer without data, or skipped, has
\* no key and no placeholder record.
C19_NoDataLeftOut ==
    (IsAnalyze /\ ~IsNone(last.ret)) =>
        \A name \in {FG, CV, GRB, AA} :
            (name \in DOMAIN Val(last.ret)) =
                (/\ name \in DOMAIN last.analysed_as
                 /\ last.analysed_as[name].dados # <<>>)

\* The report has a row and a paragraph for exactly the layers in results,
\* and approves when none of them exceeds its limit, none at all included.
C19_ReportIgnoresAbsent ==
    IsReport =>
        /\ DOMAIN last.summary = DOMAIN last.results
        /\ DOMAIN last.detail = DOMAIN last.results
        /\ (\A name \in DOMAIN last.results :
                ~ExceedsLimit(last.results, name)) =>
             last.verdict = Aprovada

\* C19: a layer whose analysis found no data, or that was skipped, is left
\* out of results instead of being recorded as not evaluated, and the report
\* ignores absent layers: with no layer at all in results, or only layers
\* that are not NÃO CONFORME, the verdict is ÁREA APROVADA.
C19_AbsentLayersIgnored == C19_NoDataLeftOut /\ C19_ReportIgnoresAbsent

\* The report on a run in which all three analyses were made and none found
\* data: results is empty and the area is approved.
C19_Witness ==
    /\ IsReport
    /\ last.analysed = {FG, GRB, AA}
    /\ last.results = <<>>
    /\ last.verdict = Aprovada

==========================================================================
